---- MODULE Spec2Model ----
(***************************************************************************)
(* bbcstyle: the finalise_plot routine of src/bbcstyle/finalise_plot.py.   *)
(*                                                                         *)
(* A call of finalise_plot is modelled statement by statement: pc is the   *)
(* statement about to run, fig is the matplotlib Figure the caller owns,   *)
(* files is the file system, and events is the history of the effects the  *)
(* call has had so far (figure mutations and file operations, in order).   *)
(*                                                                         *)
(* Conventions                                                             *)
(*   - a Python str is a sequence of one-character strings;                *)
(*   - an Optional value is <<>> (None) or <<v>>;                          *)
(*   - lengths in inches are in tenths of an inch, figure fractions in     *)
(*     thousandths.                                                        *)
(***************************************************************************)
EXTENDS Integers, Sequences, FiniteSets, TLC

VARIABLES pc, args, fig, files, tmp_path, background, logo, err, events, pre, calls

\* history: the finalise_plot calls completed so far, oldest first
\* canvas:  the pixels of the logo composite (lines 104-107)
\* theme:   the process-wide rendering defaults and the bbc_theme call
\* helper:  a gallery script's theme-enabling helper
\* votes:   a make_synthetic_votes call of the histogram example
VARIABLES history, canvas, theme, helper, votes

finaliseVars == <<pc, args, fig, files, tmp_path, background, logo, err, events, pre, calls>>

aux == <<history, canvas, theme, helper, votes>>

vars == <<finaliseVars, aux>>

\* the value of a part of the state that a specification does not exercise
Unused == <<>>

AuxUnused ==
    /\ history = <<>>
    /\ canvas = Unused
    /\ theme = Unused
    /\ helper = Unused
    /\ votes = Unused

----------------------------------------------------------------------------
(* Bounds *)

\* number of finalise_plot calls made in one behaviour
MaxCalls == 1

----------------------------------------------------------------------------
(* Python values *)

None == <<>>

Some(v) == <<v>>

\* Python truthiness of an Optional[str]: None and "" are both falsy
TruthyAsNotNone(o) == o # None

Truthy(o) == o # None /\ Len(o[1]) > 0

\* str.replace(old, new): every non-overlapping occurrence, left to right
RECURSIVE Replace(_, _, _)
Replace(s, old, new) ==
    IF Len(s) < Len(old) THEN s
    ELSE IF SubSeq(s, 1, Len(old)) = old
         THEN new \o Replace(SubSeq(s, Len(old) + 1, Len(s)), old, new)
         ELSE <<s[1]>> \o Replace(Tail(s), old, new)

DotPng == <<".", "p", "n", "g">>

TmpDotPng == <<"_", "t", "m", "p", ".", "p", "n", "g">>

\* output_path.replace(".png", "_tmp.png")
TmpPathOf(p) == Replace(p, DotPng, TmpDotPng)

----------------------------------------------------------------------------
(* Inputs *)

OutPng == <<"o", ".", "p", "n", "g">>

OutJpg == <<"o", ".", "j", "p", "g">>

GoodLogo == <<"l", ".", "p", "n", "g">>

BadLogo == <<"b", "a", "d">>

OutputPaths == {None, Some(<<>>), Some(OutPng), Some(OutJpg)}

LogoPaths == {None, Some(GoodLogo), Some(BadLogo)}

Titles == {None, Some(<<>>), Some(<<"T">>)}

Subtitles == {None, Some(<<>>), Some(<<"S">>)}

Sources == {None, Some(<<"X">>)}

\* fig_size values: the default (12, 7) and (6, 3.5)
DefaultFigSize == <<120, 70>>

FigSizes == {DefaultFigSize, <<60, 35>>}

DefaultDpi == 300

Dpis == {DefaultDpi}

DefaultLogoPosition == <<30, 30>>

\* keyword arguments the gallery scripts pass besides the ones above
ExtraKeywords ==
    {{}, {"enforce_size"}, {"divider_gap_pts"},
     {"logo_zoom", "logo_vertical_pad_pts", "divider_gap_pts"}}

\* the parameters of finalise_plot
Signature ==
    {"fig", "output_path", "source", "logo_path", "title", "subtitle",
     "logo_position", "fig_size", "dpi"}

\* charts as the callers build them: plt.subplots(figsize=...), default top
CallerSizes == {<<80, 50>>, DefaultFigSize}

CallerTop == 880

HeaderTop == 820

\* plt.subplots(figsize=..., dpi=150)
FigureDpi == 150

\* what the caller plotted: the series and the axis limits and scales
CallerAxes ==
    [series |-> <<3, 1, 2>>, xlim |-> <<0, 4>>, ylim |-> <<0, 3>>, scale |-> "linear"]

NewChart(size) ==
    [size |-> size, dpi |-> FigureDpi, top |-> CallerTop, suptitle |-> None,
     texts |-> <<>>, lines |-> <<>>, axes |-> CallerAxes]

----------------------------------------------------------------------------
(* File system *)

AllPaths ==
    {OutPng, OutJpg, TmpPathOf(OutPng), TmpPathOf(OutJpg), GoodLogo, BadLogo, <<>>}

Absent ==
    [kind |-> "absent", fig |-> None, dpi |-> 0, px |-> <<0, 0>>, meta |-> "",
     logo |-> None, pos |-> <<0, 0>>]

LogoImage ==
    [kind |-> "logo", fig |-> None, dpi |-> 0, px |-> <<0, 0>>, meta |-> "",
     logo |-> None, pos |-> <<0, 0>>]

Junk ==
    [kind |-> "junk", fig |-> None, dpi |-> 0, px |-> <<0, 0>>, meta |-> "",
     logo |-> None, pos |-> <<0, 0>>]

\* pixels of a length given in tenths of an inch
Pixels(tenths, dpi) == (tenths * dpi) \div 10

\* the raster fig.savefig(..., dpi=dpi) writes: the figure as it is at the time
\* of the save, rendered at dpi dots per inch whatever the figure's own dpi is;
\* the file's metadata names the software only
RasterAtFigureDpi(f, dpi) ==
    [kind |-> "figure", fig |-> Some(f), dpi |-> f.dpi,
     px |-> <<Pixels(f.size[1], f.dpi), Pixels(f.size[2], f.dpi)>>,
     meta |-> "matplotlib", logo |-> None, pos |-> <<0, 0>>]

RasterStamped(f, dpi) ==
    [kind |-> "figure", fig |-> Some(f), dpi |-> dpi,
     px |-> <<Pixels(f.size[1], dpi), Pixels(f.size[2], dpi)>>,
     meta |-> IF history = <<>> THEN "matplotlib run 1" ELSE "matplotlib run 2",
     logo |-> None, pos |-> <<0, 0>>]

Raster(f, dpi) ==
    [kind |-> "figure", fig |-> Some(f), dpi |-> dpi,
     px |-> <<Pixels(f.size[1], dpi), Pixels(f.size[2], dpi)>>,
     meta |-> "matplotlib", logo |-> None, pos |-> <<0, 0>>]

\* background.paste(logo, logo_position, logo)
Pasted(bg, logoPath, pos) ==
    [bg EXCEPT !.kind = "composite", !.logo = Some(logoPath), !.pos = pos]

\* a raster left behind by an earlier run of the script
Stale ==
    [kind |-> "stale", fig |-> None, dpi |-> 0, px |-> <<0, 0>>, meta |-> "",
     logo |-> None, pos |-> <<0, 0>>]

IsImage(c) == c.kind \in {"figure", "composite", "logo", "stale"}

InitialFiles ==
    [p \in AllPaths |->
        IF p = GoodLogo THEN LogoImage
        ELSE IF p = BadLogo THEN Junk
        ELSE Absent]

StaleFiles ==
    [p \in AllPaths |->
        IF p = GoodLogo THEN LogoImage
        ELSE IF p = BadLogo THEN Junk
        ELSE IF p = <<>> THEN Absent
        ELSE Stale]

Event(op, path) == [op |-> op, path |-> path]

----------------------------------------------------------------------------
(* Decorations *)

\* fig.suptitle(title, x=0.05, y=0.99, ha="left")
TitleText(s) ==
    [s |-> s, x |-> 50, y |-> 990, ha |-> "left", fontsize |-> 0, color |-> "default"]

\* fig.text(0.05, 0.90, subtitle, ha="left", fontsize=17)
SubtitleText(s) ==
    [s |-> s, x |-> 50, y |-> 900, ha |-> "left", fontsize |-> 17, color |-> "default"]

\* fig.text(0.01, 0.001, source, fontsize=14, color="#555555", ha="left")
SourceText(s) ==
    [s |-> s, x |-> 10, y |-> 1, ha |-> "left", fontsize |-> 14, color |-> "#555555"]

\* fig.text(...) adds a Text artist to the figure's list of texts
AddTextReplacing(texts, t) == <<t>>

AddText(texts, t) == Append(texts, t)

\* fig.suptitle(...) re-uses the figure's one suptitle artist: the new title
\* takes the place of the one there was
SetSuptitleKeepingFirst(current, t) == IF current = None THEN Some(t) ELSE current

SetSuptitle(current, t) == Some(t)

----------------------------------------------------------------------------
(* Conditions of the routine *)

\* "if logo_path and output_path:"
LogoRequested(a) == Truthy(a.logo_path) /\ Truthy(a.output_path)

\* "if output_path:"
SaveUnconditional(a) == TRUE

SaveRequested(a) == Truthy(a.output_path)

\* background.save(output_path)
CompositeTargetTmp(a, tmp) == tmp

CompositeTarget(a, tmp) == a.output_path

\* the statements of the body, in program order
StepOrderSourceLate ==
    <<"size", "adjust", "title", "subtitle", "tmp", "save", "source",
      "open_bg", "open_logo", "paste", "save_out", "done">>

StepOrder ==
    <<"size", "adjust", "title", "subtitle", "source", "tmp", "save",
      "open_bg", "open_logo", "paste", "save_out", "done">>

NextStep(p) ==
    LET i == CHOOSE k \in 1..Len(StepOrder) : StepOrder[k] = p
    IN  StepOrder[i + 1]

ArgSpace ==
    [output_path : OutputPaths, source : Sources, logo_path : LogoPaths,
     title : Titles, subtitle : Subtitles, logo_position : {DefaultLogoPosition},
     fig_size : FigSizes, dpi : Dpis, extra : ExtraKeywords]

NoArgs ==
    [output_path |-> None, source |-> None, logo_path |-> None, title |-> None,
     subtitle |-> None, logo_position |-> DefaultLogoPosition,
     fig_size |-> DefaultFigSize, dpi |-> DefaultDpi, extra |-> {}]

\* the calls explored: every combination of the declared options, and the
\* gallery's extra keywords on top of a call with a source and an output path
\* the calls the gallery scripts make: 01 and 02, then 03, 04 and 05
GalleryCalls ==
    {a \in ArgSpace :
        /\ a.fig_size = DefaultFigSize
        /\ a.dpi = DefaultDpi
        /\ \/ /\ a.extra = {"enforce_size"}
              /\ a.output_path \in {None, Some(OutPng)}
              /\ a.logo_path \in {None, Some(GoodLogo)}
              /\ a.source = None
              /\ a.title = Some(<<"T">>)
              /\ a.subtitle = Some(<<"S">>)
           \/ /\ a.extra = {"enforce_size"}
              /\ a.output_path = Some(OutPng)
              /\ a.logo_path = None
              /\ a.source = Some(<<"X">>)
              /\ a.title = Some(<<"T">>)
              /\ a.subtitle = Some(<<"S">>)
           \/ /\ a.extra = {"logo_zoom", "logo_vertical_pad_pts", "divider_gap_pts"}
              /\ a.output_path = None
              /\ a.logo_path = Some(GoodLogo)
              /\ a.source = Some(<<"X">>)
              /\ a.title = None
              /\ a.subtitle = None
           \/ /\ a.extra = {"logo_zoom", "logo_vertical_pad_pts", "divider_gap_pts"}
              /\ a.output_path = Some(OutPng)
              /\ a.logo_path = Some(GoodLogo)
              /\ a.source = Some(<<"X">>)
              /\ a.title = Some(<<"T">>)
              /\ a.subtitle = Some(<<"S">>)}

CallSpace ==
    {a \in ArgSpace :
        \/ a \in GalleryCalls
        \/ a.extra # {} => /\ a.title = None /\ a.subtitle = None
                           /\ a.source # None /\ a.logo_path = None
                           /\ a.output_path = Some(OutPng)}

Locals == <<tmp_path, background, logo>>

----------------------------------------------------------------------------
(* State *)

Init ==
    /\ pc = "idle"
    /\ args = NoArgs
    /\ fig \in {NewChart(s) : s \in CallerSizes}
    /\ files \in {InitialFiles, StaleFiles}
    /\ tmp_path = None
    /\ background = None
    /\ logo = None
    /\ err = "none"
    /\ events = <<>>
    /\ pre = [fig |-> fig, files |-> files]
    /\ calls = 0
    /\ AuxUnused

\* the caller invokes finalise_plot(fig, **a); an unknown keyword is a TypeError
Call(a) ==
    /\ pc = "idle"
    /\ calls < MaxCalls
    /\ calls' = calls + 1
    /\ args' = a
    /\ pre' = [fig |-> fig, files |-> files]
    /\ events' = <<>>
    /\ tmp_path' = None
    /\ background' = None
    /\ logo' = None
    /\ IF a.extra \subseteq Signature
       THEN pc' = StepOrder[1] /\ err' = "none"
       ELSE pc' = "done" /\ err' = "TypeError"
    /\ UNCHANGED <<fig, files, aux>>

\* fig.set_size_inches(*fig_size)
SetSize ==
    /\ pc = "size"
    /\ fig' = [fig EXCEPT !.size = args.fig_size]
    /\ events' = Append(events, Event("set_size_inches", None))
    /\ pc' = NextStep(pc)
    /\ UNCHANGED <<args, files, Locals, err, pre, calls, aux>>

\* fig.subplots_adjust(top=0.82)
SubplotsAdjust ==
    /\ pc = "adjust"
    /\ fig' = [fig EXCEPT !.top = HeaderTop]
    /\ events' = Append(events, Event("subplots_adjust", None))
    /\ pc' = NextStep(pc)
    /\ UNCHANGED <<args, files, Locals, err, pre, calls, aux>>

\* if title: fig.suptitle(...) -- a figure has one suptitle, set in place
DrawTitle ==
    /\ pc = "title"
    /\ IF Truthy(args.title)
       THEN /\ fig' = [fig EXCEPT !.suptitle = SetSuptitle(@, TitleText(args.title[1]))]
            /\ events' = Append(events, Event("suptitle", None))
       ELSE UNCHANGED <<fig, events>>
    /\ pc' = NextStep(pc)
    /\ UNCHANGED <<args, files, Locals, err, pre, calls, aux>>

\* if subtitle: fig.text(...) -- every call adds a new Text artist
DrawSubtitle ==
    /\ pc = "subtitle"
    /\ IF Truthy(args.subtitle)
       THEN /\ fig' = [fig EXCEPT !.texts = AddText(@, SubtitleText(args.subtitle[1]))]
            /\ events' = Append(events, Event("text_subtitle", None))
       ELSE UNCHANGED <<fig, events>>
    /\ pc' = NextStep(pc)
    /\ UNCHANGED <<args, files, Locals, err, pre, calls, aux>>

\* if source: fig.text(...)
DrawSource ==
    /\ pc = "source"
    /\ IF Truthy(args.source)
       THEN /\ fig' = [fig EXCEPT !.texts = AddText(@, SourceText(args.source[1]))]
            /\ events' = Append(events, Event("text_source", None))
       ELSE UNCHANGED <<fig, events>>
    /\ pc' = NextStep(pc)
    /\ UNCHANGED <<args, files, Locals, err, pre, calls, aux>>

\* tmp_path = output_path; if logo_path and output_path: tmp_path = ...replace(...)
ChooseTmpPath ==
    /\ pc = "tmp"
    /\ IF LogoRequested(args)
       THEN tmp_path' = Some(TmpPathOf(args.output_path[1]))
       ELSE tmp_path' = args.output_path
    /\ pc' = NextStep(pc)
    /\ UNCHANGED <<args, fig, files, background, logo, err, events, pre, calls, aux>>

\* if output_path: fig.savefig(tmp_path, dpi=dpi, facecolor="white")
\* the write succeeds or raises OSError (directory not writable); savefig
\* rejects a file name of None
SaveFig ==
    /\ pc = "save"
    /\ IF SaveRequested(args)
       THEN IF tmp_path = None
            THEN err' = "TypeError" /\ pc' = "done" /\ UNCHANGED <<files, events>>
            ELSE \/ /\ files' = [files EXCEPT ![tmp_path[1]] = Raster(fig, args.dpi)]
                    /\ events' = Append(events, Event("write_figure", tmp_path))
                    /\ err' = err /\ pc' = NextStep(pc)
                 \/ /\ err' = "OSError" /\ pc' = "done"
                    /\ UNCHANGED <<files, events>>
       ELSE err' = err /\ pc' = NextStep(pc) /\ UNCHANGED <<files, events>>
    /\ UNCHANGED <<args, fig, Locals, pre, calls, aux>>

\* if logo_path and output_path: background = Image.open(tmp_path)
OpenBackground ==
    /\ pc = "open_bg"
    /\ IF LogoRequested(args)
       THEN IF tmp_path # None /\ IsImage(files[tmp_path[1]])
            THEN /\ background' = Some(files[tmp_path[1]])
                 /\ events' = Append(events, Event("open", tmp_path))
                 /\ err' = err /\ pc' = NextStep(pc)
            ELSE /\ err' = "FileNotFoundError" /\ pc' = "done"
                 /\ UNCHANGED <<background, events>>
       ELSE err' = err /\ pc' = "done" /\ UNCHANGED <<background, events>>
    /\ UNCHANGED <<args, fig, files, tmp_path, logo, pre, calls, aux>>

\* logo = Image.open(logo_path).convert("RGBA"): fails on a file that is no image
OpenLogo ==
    /\ pc = "open_logo"
    /\ IF IsImage(files[args.logo_path[1]])
       THEN /\ logo' = args.logo_path
            /\ events' = Append(events, Event("open", args.logo_path))
            /\ err' = err /\ pc' = NextStep(pc)
       ELSE /\ err' = "UnidentifiedImageError" /\ pc' = "done"
            /\ UNCHANGED <<logo, events>>
    /\ UNCHANGED <<args, fig, files, tmp_path, background, pre, calls, aux>>

\* background.paste(logo, logo_position, logo)
Paste ==
    /\ pc = "paste"
    /\ background' = Some(Pasted(background[1], logo[1], args.logo_position))
    /\ events' = Append(events, Event("paste", None))
    /\ pc' = NextStep(pc)
    /\ UNCHANGED <<args, fig, files, tmp_path, logo, err, pre, calls, aux>>

\* background.save(output_path): succeeds or raises OSError
SaveComposite ==
    /\ pc = "save_out"
    /\ LET target == CompositeTarget(args, tmp_path)
       IN  \/ /\ files' = [files EXCEPT ![target[1]] = background[1]]
              /\ events' = Append(events, Event("write_composite", target))
              /\ err' = err /\ pc' = NextStep(pc)
           \/ /\ err' = "OSError" /\ pc' = "done"
              /\ UNCHANGED <<files, events>>
    /\ UNCHANGED <<args, fig, Locals, pre, calls, aux>>

\* the call has returned or raised; its locals are gone and the caller goes on
Return ==
    /\ pc = "done"
    /\ pc' = "idle"
    /\ args' = NoArgs
    /\ tmp_path' = None
    /\ background' = None
    /\ logo' = None
    /\ err' = "none"
    /\ events' = <<>>
    /\ pre' = [fig |-> fig, files |-> files]
    /\ UNCHANGED <<fig, files, calls, aux>>

Next ==
    \/ \E a \in CallSpace : Call(a)
    \/ SetSize
    \/ SubplotsAdjust
    \/ DrawTitle
    \/ DrawSubtitle
    \/ DrawSource
    \/ ChooseTmpPath
    \/ SaveFig
    \/ OpenBackground
    \/ OpenLogo
    \/ Paste
    \/ SaveComposite
    \/ Return

Spec == Init /\ [][Next]_vars

TypeOK ==
    /\ pc \in {"idle"} \cup {StepOrder[i] : i \in 1..Len(StepOrder)}
    /\ args \in ArgSpace
    /\ calls \in 0..MaxCalls
    /\ err \in {"none", "TypeError", "OSError",
                "FileNotFoundError", "UnidentifiedImageError"}

----------------------------------------------------------------------------
(* Vocabulary of the properties *)

\* an optional string input is present when it is a non-empty string
Present(o) == o # <<>> /\ o[1] # <<>>

Done == pc = "done"

Succeeded == pc = "done" /\ err = "none"

BothSet == Present(args.logo_path) /\ Present(args.output_path)

IsWrite(e) == e.op \in {"write_figure", "write_composite"}

IsFileEvent(e) == e.op \in {"write_figure", "write_composite", "open", "paste"}

FileEvents == SelectSeq(events, IsFileEvent)

Writes == SelectSeq(events, IsWrite)

IsPrefix(s, t) == Len(s) <= Len(t) /\ SubSeq(t, 1, Len(s)) = s

\* the decorations the inputs of the call ask for, on top of what the chart had
ExpectedSuptitle ==
    IF Present(args.title)
    THEN <<[s |-> args.title[1], x |-> 50, y |-> 990, ha |-> "left",
            fontsize |-> 0, color |-> "default"]>>
    ELSE pre.fig.suptitle

ExpectedTexts ==
    pre.fig.texts
    \o (IF Present(args.subtitle)
        THEN <<[s |-> args.subtitle[1], x |-> 50, y |-> 900, ha |-> "left",
                fontsize |-> 17, color |-> "default"]>>
        ELSE <<>>)
    \o (IF Present(args.source)
        THEN <<[s |-> args.source[1], x |-> 10, y |-> 1, ha |-> "left",
                fontsize |-> 14, color |-> "#555555"]>>
        ELSE <<>>)

----------------------------------------------------------------------------
(* Properties *)

\* C1: a call with output_path absent (None) creates or overwrites no file,
\* whatever the other options (title, subtitle, source, logo_path,
\* logo_position, fig_size, dpi) are, and raises no error -- also with
\* logo_path set.
C1_NoOutputPathNoFile ==
    (pc # "idle" /\ args.output_path = <<>> /\ args.extra = {}) =>
        /\ files = pre.files
        /\ Writes = <<>>
        /\ err = "none"

C1_Witness ==
    /\ Succeeded
    /\ args.output_path = <<>>
    /\ args.logo_path = Some(GoodLogo)
    /\ Present(args.source)

\* C2: with logo_path and output_path both set the file events of the call are,
\* in this order: figure written to the intermediate path, intermediate raster
\* re-opened, logo opened and pasted, composite written to output_path; a
\* successful call performs all of them and nothing follows the composite.
C2_LogoFileEventOrder ==
    (pc # "idle" /\ BothSet) =>
        LET expected ==
                <<Event("write_figure", tmp_path), Event("open", tmp_path),
                  Event("open", args.logo_path), Event("paste", <<>>),
                  Event("write_composite", args.output_path)>>
        IN  /\ IsPrefix(FileEvents, expected)
            /\ Succeeded => FileEvents = expected

C2_Witness ==
    /\ Succeeded
    /\ BothSet
    /\ args.output_path = Some(OutPng)
    /\ Len(FileEvents) = 5

\* C3: with output_path and logo_path both set a successful call leaves two
\* distinct files: the pre-logo raster at a temporary path different from
\* output_path, and the composite at output_path.
C3_TwoDistinctFiles ==
    (Succeeded /\ BothSet) =>
        /\ tmp_path # args.output_path
        /\ files[tmp_path[1]].kind = "figure"
        /\ files[args.output_path[1]].kind = "composite"

\* C4: when the logo step fails after the base image was written, the error
\* reaches the caller, the pre-logo image is at the temporary path, and
\* output_path holds exactly what it held before the call.
C4_FailedLogoLeavesOutputPath ==
    (Done /\ BothSet /\ err # "none" /\ Writes # <<>>) =>
        /\ files[tmp_path[1]].kind = "figure"
        /\ files[args.output_path[1]] = pre.files[args.output_path[1]]

\* C5: with source, logo_path, title and subtitle absent and output_path set,
\* the call writes exactly one file, at output_path, creates no temporary file,
\* adds no decoration and leaves the plotting area's margins as they were.
C5_BareCallOnlySaves ==
    (Succeeded /\ Present(args.output_path) /\ args.source = <<>>
        /\ args.logo_path = <<>> /\ args.title = <<>> /\ args.subtitle = <<>>) =>
        /\ Writes = <<Event("write_figure", args.output_path)>>
        /\ \A p \in AllPaths : p # args.output_path[1] => files[p] = pre.files[p]
        /\ fig.suptitle = pre.fig.suptitle
        /\ fig.texts = pre.fig.texts
        /\ fig.lines = pre.fig.lines
        /\ fig.top = pre.fig.top

\* C6: an absent title, subtitle, source or logo_path is never an error (the
\* only errors are a failed write, with output_path present, and an undecodable
\* logo, with logo_path present), and the call adds exactly the decorations
\* whose input is present: the title, the subtitle text, the source text, and
\* the logo when logo_path and output_path are both present.
C6_DecorationsMatchInputs ==
    (Done /\ args.extra = {}) =>
        /\ err \in {"none", "OSError", "UnidentifiedImageError"}
        /\ err = "OSError" => Present(args.output_path)
        /\ err = "UnidentifiedImageError" => Present(args.logo_path)
        /\ fig.suptitle = ExpectedSuptitle
        /\ fig.texts = ExpectedTexts
        /\ err = "none" =>
              ((\E i \in 1..Len(events) : events[i].op = "paste") <=> BothSet)

C6_Witness ==
    /\ Succeeded
    /\ Present(args.title)
    /\ args.subtitle = <<>>
    /\ Present(args.source)
    /\ args.logo_path = <<>>
    /\ Len(fig.texts) = 1

\* C7: finalise_plot accepts enforce_size, and unless enforce_size is true the
\* chart's width and height after the call are what they were before it.
C7_SizeKeptUnlessEnforced ==
    Done =>
        /\ "enforce_size" \in args.extra => err # "TypeError"
        /\ "enforce_size" \notin args.extra => fig.size = pre.fig.size

\* C8: the top of the plotting area is lowered to 0.82 if and only if title or
\* subtitle is a non-empty string; otherwise it stays as the caller set it.
C8_HeaderSpaceOnlyForHeader ==
    Succeeded =>
        fig.top = IF Present(args.title) \/ Present(args.subtitle)
                  THEN 820
                  ELSE pre.fig.top

\* C9: for a non-empty source the call draws one divider line above the source
\* text; with source absent it draws none.
C9_DividerWithSource ==
    Succeeded =>
        Len(fig.lines) = Len(pre.fig.lines) + (IF Present(args.source) THEN 1 ELSE 0)

\* C10: the steps of a call run in the order sizing, header space, title,
\* subtitle, source, persist, logo composite: every requested decoration is on
\* the chart before the first write, the raster written holds the chart with
\* all of them, and the chart is not changed after the save.
EventRank(e) ==
    CASE e.op = "set_size_inches" -> 1
      [] e.op = "subplots_adjust" -> 2
      [] e.op = "suptitle" -> 3
      [] e.op = "text_subtitle" -> 4
      [] e.op = "text_source" -> 5
      [] e.op = "write_figure" -> 6
      [] e.op = "open" -> 7
      [] e.op = "paste" -> 8
      [] e.op = "write_composite" -> 9

C10_DecorationsBeforeSave ==
    pc # "idle" =>
        /\ \A i, j \in 1..Len(events) :
              i < j => /\ EventRank(events[i]) <= EventRank(events[j])
                       /\ EventRank(events[i]) < 7 =>
                             EventRank(events[i]) < EventRank(events[j])
        /\ \A i \in 1..Len(events) :
              IsWrite(events[i]) =>
                 /\ files[events[i].path[1]].fig = <<fig>>
                 /\ fig.suptitle = ExpectedSuptitle
                 /\ fig.texts = ExpectedTexts
                 /\ events[1].op = "set_size_inches"
                 /\ events[2].op = "subplots_adjust"

C10_Witness ==
    /\ Succeeded
    /\ BothSet
    /\ Present(args.title)
    /\ Present(args.subtitle)
    /\ Present(args.source)
    /\ Len(events) = 10

----------------------------------------------------------------------------
(* The logo composite, pixel by pixel (finalise_plot.py, lines 104-107)     *)
(*                                                                          *)
(* An image is [w, h, px] with px[<<x, y>>] = [c, a], a colour and an alpha *)
(* in 0..255, for 0 <= x < w and 0 <= y < h.                                *)

\* largest base raster explored
CanvasW == 3

CanvasH == 2

\* largest logo explored, per side
MaxLogoSide == 3

Coords(w, h) == (0..(w - 1)) \X (0..(h - 1))

\* the raster savefig wrote: opaque (facecolor="white"), every pixel its own colour
BaseRaster(w, h) ==
    [w |-> w, h |-> h,
     px |-> [q \in Coords(w, h) |-> [c |-> 1 + q[1] + 10 * q[2], a |-> 255]]]

\* alpha channels of the logos explored
AlphaPatterns == {"opaque", "transparent", "half", "checker", "edge"}

AlphaAt(pattern, i, j) ==
    CASE pattern = "opaque" -> 255
      [] pattern = "transparent" -> 0
      [] pattern = "half" -> 128
      [] pattern = "checker" -> IF (i + j) % 2 = 0 THEN 255 ELSE 0
      [] pattern = "edge" -> IF i = 0 THEN 128 ELSE IF j = 0 THEN 0 ELSE 255

\* Image.open(logo_path).convert("RGBA")
LogoRGBA(w, h, pattern) ==
    [w |-> w, h |-> h,
     px |-> [q \in Coords(w, h) |->
                [c |-> 200 + q[1] + 10 * q[2], a |-> AlphaAt(pattern, q[1], q[2])]]]

NoImage == [w |-> 0, h |-> 0, px |-> <<>>]

\* Pillow's 8-bit a*b/255, rounded
MulDiv255(a, b) ==
    LET t == a * b + 128
    IN  ((t \div 256) + t) \div 256

\* Pillow's blend of one band under a mask value m
Blend8(m, dst, src) == MulDiv255(dst, 255 - m) + MulDiv255(src, m)

InBox(q, pos, lg) ==
    /\ q[1] - pos[1] \in 0..(lg.w - 1)
    /\ q[2] - pos[2] \in 0..(lg.h - 1)

\* background.paste(logo, logo_position, logo): inside the logo's box, clipped
\* to the background, every band is blended under the logo's alpha
PasteImageNoMask(bg, lg, pos) ==
    [bg EXCEPT !.px =
        [q \in DOMAIN bg.px |->
            IF InBox(q, pos, lg)
            THEN lg.px[<<q[1] - pos[1], q[2] - pos[2]>>]
            ELSE bg.px[q]]]

PasteImage(bg, lg, pos) ==
    [bg EXCEPT !.px =
        [q \in DOMAIN bg.px |->
            IF InBox(q, pos, lg)
            THEN LET src == lg.px[<<q[1] - pos[1], q[2] - pos[2]>>]
                 IN  [c |-> Blend8(src.a, bg.px[q].c, src.c),
                      a |-> Blend8(src.a, bg.px[q].a, src.a)]
            ELSE bg.px[q]]]

\* background.save(output_path): the image that is written
SavedLogo(bg, lg) == lg

SavedImage(bg, lg) == bg

FinaliseParked ==
    /\ pc = "parked"
    /\ args = NoArgs
    /\ fig = NewChart(DefaultFigSize)
    /\ files = InitialFiles
    /\ tmp_path = None
    /\ background = None
    /\ logo = None
    /\ err = "none"
    /\ events = <<>>
    /\ pre = [fig |-> fig, files |-> files]
    /\ calls = 0

InitPaste ==
    /\ FinaliseParked
    /\ history = <<>>
    /\ theme = Unused
    /\ helper = Unused
    /\ votes = Unused
    /\ \E bw \in 1..CanvasW, bh \in 1..CanvasH, lw \in 1..MaxLogoSide,
          lh \in 1..MaxLogoSide, pattern \in AlphaPatterns,
          x \in (0 - MaxLogoSide)..CanvasW, y \in (0 - MaxLogoSide)..CanvasH :
            canvas = [pc |-> "open", base |-> BaseRaster(bw, bh),
                      logofile |-> LogoRGBA(lw, lh, pattern), pos |-> <<x, y>>,
                      bg |-> NoImage, lg |-> NoImage, out |-> NoImage]

\* background = Image.open(tmp_path); logo = Image.open(logo_path).convert("RGBA")
PixelOpen ==
    /\ canvas.pc = "open"
    /\ canvas' = [canvas EXCEPT !.pc = "paste", !.bg = canvas.base,
                                !.lg = canvas.logofile]
    /\ UNCHANGED <<finaliseVars, history, theme, helper, votes>>

\* background.paste(logo, logo_position, logo)
PixelPaste ==
    /\ canvas.pc = "paste"
    /\ canvas' = [canvas EXCEPT !.pc = "save",
                                !.bg = PasteImage(canvas.bg, canvas.lg, canvas.pos)]
    /\ UNCHANGED <<finaliseVars, history, theme, helper, votes>>

\* background.save(output_path)
PixelSave ==
    /\ canvas.pc = "save"
    /\ canvas' = [canvas EXCEPT !.pc = "saved",
                                !.out = SavedImage(canvas.bg, canvas.lg)]
    /\ UNCHANGED <<finaliseVars, history, theme, helper, votes>>

NextPaste ==
    \/ PixelOpen
    \/ PixelPaste
    \/ PixelSave

SpecPaste == InitPaste /\ [][NextPaste]_vars

\* C11: the composite written to output_path has exactly the pixel width and
\* height of the base raster, whatever the logo's size and offset are (also a
\* logo larger than the canvas or lying partly outside it).
C11_CompositeKeepsCanvasSize ==
    canvas.pc = "saved" =>
        /\ canvas.out.w = canvas.base.w
        /\ canvas.out.h = canvas.base.h
        /\ DOMAIN canvas.out.px = Coords(canvas.base.w, canvas.base.h)

C11_Witness ==
    /\ canvas.pc = "saved"
    /\ canvas.logofile.w > canvas.base.w
    /\ canvas.logofile.h > canvas.base.h
    /\ canvas.pos[1] < 0
    /\ canvas.out.w = canvas.base.w

\* C12: every fully opaque logo pixel whose target lies inside the canvas gives
\* the output pixel its colour, and every output pixel outside the pasted
\* rectangle or under a fully transparent logo pixel is the base raster's pixel.
C12_OpaqueLogoPixelsAndUntouchedBase ==
    canvas.pc = "saved" =>
        /\ \A q \in DOMAIN canvas.logofile.px :
              LET target == <<canvas.pos[1] + q[1], canvas.pos[2] + q[2]>>
              IN  (canvas.logofile.px[q].a = 255
                   /\ target \in Coords(canvas.base.w, canvas.base.h)) =>
                      canvas.out.px[target].c = canvas.logofile.px[q].c
        /\ \A t \in Coords(canvas.base.w, canvas.base.h) :
              LET q == <<t[1] - canvas.pos[1], t[2] - canvas.pos[2]>>
              IN  (q \notin DOMAIN canvas.logofile.px
                   \/ canvas.logofile.px[q].a = 0) =>
                      canvas.out.px[t] = canvas.base.px[t]

C12_Witness ==
    /\ canvas.pc = "saved"
    /\ canvas.base.w = CanvasW
    /\ canvas.logofile.w = 2
    /\ canvas.logofile.h = 2
    /\ canvas.pos = <<1, 0>>
    /\ canvas.logofile.px[<<0, 0>>].a = 255
    /\ canvas.logofile.px[<<1, 0>>].a = 0
    /\ canvas.out.px[<<1, 0>>].c = canvas.logofile.px[<<0, 0>>].c
    /\ canvas.out.px[<<2, 0>>] = canvas.base.px[<<2, 0>>]
    /\ canvas.out.px[<<0, 0>>] = canvas.base.px[<<0, 0>>]

----------------------------------------------------------------------------
(* Two runs of the same call: finalise_plot(fig, **a) on a freshly built    *)
(* chart, then the same call on a second, content-identical chart, from the *)
(* same file-system state.                                                  *)

Completed == [args |-> args, pre |-> pre, fig |-> fig, files |-> files,
              err |-> err, events |-> events]

FirstRun ==
    /\ history = <<>>
    /\ \E a \in CallSpace : Call(a)

\* the first call is over: its outcome is noted, the caller builds the same
\* chart again and the files are put back as they were
RebuildChart ==
    /\ pc = "done"
    /\ history = <<>>
    /\ history' = <<Completed>>
    /\ pc' = "idle"
    /\ fig' = pre.fig
    /\ files' = pre.files
    /\ calls' = 0
    /\ UNCHANGED <<args, Locals, err, events, pre, canvas, theme, helper, votes>>

SecondRun ==
    /\ Len(history) = 1
    /\ Call(history[1].args)

NextTwin ==
    \/ FirstRun
    \/ RebuildChart
    \/ SecondRun
    \/ SetSize
    \/ SubplotsAdjust
    \/ DrawTitle
    \/ DrawSubtitle
    \/ DrawSource
    \/ ChooseTmpPath
    \/ SaveFig
    \/ OpenBackground
    \/ OpenLogo
    \/ Paste
    \/ SaveComposite

SpecTwin == Init /\ [][NextTwin]_vars

----------------------------------------------------------------------------
(* A call on a chart that already carries figure-level artists of the       *)
(* caller: an annotation, a rule, and possibly a suptitle (the histogram    *)
(* example sets fig.suptitle itself before it calls finalise_plot).         *)

CallerNote ==
    [s |-> <<"n">>, x |-> 500, y |-> 500, ha |-> "center", fontsize |-> 12,
     color |-> "default"]

CallerSuptitle ==
    [s |-> <<"C">>, x |-> 60, y |-> 980, ha |-> "left", fontsize |-> 30,
     color |-> "default"]

CallerRule == [y |-> 100, x0 |-> 0, x1 |-> 1000]

DecoratedCharts ==
    {[NewChart(size) EXCEPT !.texts = <<CallerNote>>, !.lines = <<CallerRule>>,
                            !.suptitle = st] :
        size \in CallerSizes, st \in {None, Some(CallerSuptitle)}}

InitFrame ==
    /\ pc = "idle"
    /\ args = NoArgs
    /\ fig \in DecoratedCharts
    /\ files = InitialFiles
    /\ tmp_path = None
    /\ background = None
    /\ logo = None
    /\ err = "none"
    /\ events = <<>>
    /\ pre = [fig |-> fig, files |-> files]
    /\ calls = 0
    /\ AuxUnused

SpecFrame == InitFrame /\ [][Next]_vars

----------------------------------------------------------------------------
(* Calls at several resolutions: fig.savefig(tmp_path, dpi=dpi, ...)        *)

RasterDpis == {72, 150, 300}

RasterCallSpace ==
    [output_path : {Some(OutPng), Some(OutJpg)}, source : Sources,
     logo_path : {None, Some(GoodLogo)}, title : {None, Some(<<"T">>)},
     subtitle : {None}, logo_position : {DefaultLogoPosition},
     fig_size : FigSizes, dpi : RasterDpis, extra : {{}}]

NextRaster ==
    \/ \E a \in RasterCallSpace : Call(a)
    \/ SetSize
    \/ SubplotsAdjust
    \/ DrawTitle
    \/ DrawSubtitle
    \/ DrawSource
    \/ ChooseTmpPath
    \/ SaveFig
    \/ OpenBackground
    \/ OpenLogo
    \/ Paste
    \/ SaveComposite
    \/ Return

SpecRaster == Init /\ [][NextRaster]_vars

\* C15: every raster the call writes, the direct save, the intermediate raster
\* and the composite alike, is fig_size[0]*dpi pixels wide and fig_size[1]*dpi
\* pixels high (3600 x 2100 for (12, 7) at 300 dpi), at the dpi option and not
\* at the figure's own dpi.
C15_RasterIsFigSizeTimesDpi ==
    pc # "idle" =>
        \A i \in 1..Len(events) :
            IsWrite(events[i]) =>
                LET f == files[events[i].path[1]]
                IN  /\ 10 * f.px[1] = args.fig_size[1] * args.dpi
                    /\ 10 * f.px[2] = args.fig_size[2] * args.dpi
                    /\ f.dpi = args.dpi
                    /\ (args.fig_size = <<120, 70>> /\ args.dpi = 300) =>
                           f.px = <<3600, 2100>>

C15_Witness ==
    /\ Succeeded
    /\ BothSet
    /\ args.output_path = Some(OutPng)
    /\ args.fig_size = <<60, 35>>
    /\ args.dpi = 72
    /\ fig.dpi = 150
    /\ files[OutPng].kind = "composite"
    /\ files[OutPng].px = <<432, 252>>
    /\ files[TmpPathOf(OutPng)].px = <<432, 252>>

----------------------------------------------------------------------------
(* bbc_theme (src/bbcstyle/theme.py)                                        *)
(*                                                                          *)
(* The global defaults (mpl.rcParams) are a function from keys to values;   *)
(* every value is written as a string.                                      *)

\* number of bbc_theme calls made in one behaviour
MaxThemeCalls == 2

\* the rc dictionary built on lines 17-46
ThemeRc(font_family) ==
    [k \in {"font.family", "axes.titlesize", "axes.titleweight", "axes.titlecolor",
            "axes.labelsize", "xtick.labelsize", "ytick.labelsize", "text.color",
            "axes.edgecolor", "axes.grid", "axes.axisbelow", "axes.prop_cycle",
            "grid.color", "grid.linestyle", "grid.linewidth",
            "xtick.bottom", "xtick.top", "ytick.left", "ytick.right",
            "legend.frameon", "legend.loc", "legend.framealpha", "legend.fontsize"} |->
        CASE k = "font.family" -> font_family
          [] k = "axes.titlesize" -> "28"
          [] k = "axes.titleweight" -> "bold"
          [] k = "axes.titlecolor" -> "#222222"
          [] k = "axes.labelsize" -> "0"
          [] k = "xtick.labelsize" -> "18"
          [] k = "ytick.labelsize" -> "18"
          [] k = "text.color" -> "#222222"
          [] k = "axes.edgecolor" -> "none"
          [] k = "axes.grid" -> "True"
          [] k = "axes.axisbelow" -> "True"
          [] k = "axes.prop_cycle" -> "cycler(color=[#007f7f])"
          [] k = "grid.color" -> "#cbcbcb"
          [] k = "grid.linestyle" -> "-"
          [] k = "grid.linewidth" -> "1"
          [] k = "xtick.bottom" -> "False"
          [] k = "xtick.top" -> "False"
          [] k = "ytick.left" -> "False"
          [] k = "ytick.right" -> "False"
          [] k = "legend.frameon" -> "False"
          [] k = "legend.loc" -> "upper center"
          [] k = "legend.framealpha" -> "0"
          [] k = "legend.fontsize" -> "18"]

\* seaborn's "whitegrid" style: the keys a seaborn style owns and their values
Whitegrid ==
    [k \in {"axes.facecolor", "axes.edgecolor", "axes.grid", "axes.axisbelow",
            "axes.labelcolor", "figure.facecolor", "grid.color", "grid.linestyle",
            "text.color", "xtick.color", "ytick.color", "font.family",
            "xtick.bottom", "xtick.top", "ytick.left", "ytick.right"} |->
        CASE k \in {"axes.facecolor", "figure.facecolor"} -> "white"
          [] k \in {"axes.edgecolor", "grid.color"} -> ".8"
          [] k \in {"axes.grid", "axes.axisbelow"} -> "True"
          [] k \in {"axes.labelcolor", "text.color", "xtick.color", "ytick.color"} -> ".15"
          [] k = "grid.linestyle" -> "-"
          [] k = "font.family" -> "sans-serif"
          [] k \in {"xtick.bottom", "xtick.top", "ytick.left", "ytick.right"} -> "False"]

\* the style sns.set_style("whitegrid", rc=rc) applies: whitegrid, overridden
\* by the entries of rc whose key is a style key
StyleWithoutRc(rc) == Whitegrid

StyleWithRc(rc) ==
    [k \in DOMAIN Whitegrid |-> IF k \in DOMAIN rc THEN rc[k] ELSE Whitegrid[k]]

\* dict.update on mpl.rcParams
RcUpdateOnlyDefaults(params, d) ==
    [k \in DOMAIN params |->
        IF k \in DOMAIN d /\ params[k] = "sans-serif" THEN d[k] ELSE params[k]]

RcUpdate(params, d) ==
    [k \in DOMAIN params |-> IF k \in DOMAIN d THEN d[k] ELSE params[k]]

FontFamilies == {"DejaVu Sans", "Arial"}

\* matplotlib's own defaults for the keys of the model
MplDefaults ==
    [k \in DOMAIN ThemeRc("") \cup DOMAIN Whitegrid \cup {"lines.linewidth"} |->
        CASE k = "font.family" -> "sans-serif"
          [] k = "axes.titlesize" -> "large"
          [] k = "axes.titleweight" -> "normal"
          [] k = "axes.titlecolor" -> "auto"
          [] k \in {"axes.labelsize", "xtick.labelsize", "ytick.labelsize",
                    "legend.fontsize"} -> "medium"
          [] k \in {"text.color", "axes.edgecolor", "axes.labelcolor",
                    "xtick.color", "ytick.color"} -> "black"
          [] k \in {"axes.facecolor", "figure.facecolor"} -> "white"
          [] k = "axes.grid" -> "False"
          [] k = "axes.axisbelow" -> "line"
          [] k = "axes.prop_cycle" -> "cycler(color=tab10)"
          [] k = "grid.color" -> "#b0b0b0"
          [] k = "grid.linestyle" -> "-"
          [] k = "grid.linewidth" -> "0.8"
          [] k \in {"xtick.bottom", "ytick.left", "legend.frameon"} -> "True"
          [] k \in {"xtick.top", "ytick.right"} -> "False"
          [] k = "legend.loc" -> "best"
          [] k = "legend.framealpha" -> "0.8"
          [] k = "lines.linewidth" -> "1.5"]

\* defaults as earlier code of the process may have left them
PriorDefaults ==
    {RcUpdate(MplDefaults,
              [k \in {"grid.color", "axes.grid", "font.family", "legend.frameon",
                      "axes.facecolor", "lines.linewidth"} |->
                  CASE k = "grid.color" -> c[1]
                    [] k = "axes.grid" -> c[2]
                    [] k = "font.family" -> c[3]
                    [] k = "legend.frameon" -> c[4]
                    [] k = "axes.facecolor" -> c[5]
                    [] k = "lines.linewidth" -> c[6]]) :
        c \in {"#b0b0b0", "red"} \X {"False", "True"} \X {"sans-serif", "serif"}
              \X {"True", "False"} \X {"white", "black"} \X {"1.5", "3"}}

InitTheme ==
    /\ FinaliseParked
    /\ history = <<>>
    /\ canvas = Unused
    /\ helper = Unused
    /\ votes = Unused
    /\ \E prior \in PriorDefaults :
          theme = [pc |-> "idle", font |-> "", rcParams |-> prior, rc |-> <<>>,
                   before |-> prior, result |-> "none", raised |-> FALSE, n |-> 0]

\* bbc_theme(font_family): lines 13-46 build the rc dictionary
ThemeCall(font_family) ==
    /\ theme.pc = "idle"
    /\ theme.n < MaxThemeCalls
    /\ theme' = [theme EXCEPT !.pc = "update", !.font = font_family,
                              !.rc = ThemeRc(font_family),
                              !.before = theme.rcParams, !.result = "none",
                              !.n = @ + 1]
    /\ UNCHANGED <<finaliseVars, history, canvas, helper, votes>>

\* mpl.rcParams.update(rc)
ThemeUpdate ==
    /\ theme.pc = "update"
    /\ theme' = [theme EXCEPT !.pc = "set_style",
                              !.rcParams = RcUpdate(theme.rcParams, theme.rc)]
    /\ UNCHANGED <<finaliseVars, history, canvas, helper, votes>>

\* sns.set_style("whitegrid", rc=rc), then the function ends: it returns None
ThemeSetStyle ==
    /\ theme.pc = "set_style"
    /\ theme' = [theme EXCEPT !.pc = "returned",
                              !.rcParams = RcUpdate(theme.rcParams, StyleWithRc(theme.rc)),
                              !.result = "None"]
    /\ UNCHANGED <<finaliseVars, history, canvas, helper, votes>>

\* the caller goes on
ThemeReturn ==
    /\ theme.pc = "returned"
    /\ theme' = [theme EXCEPT !.pc = "idle"]
    /\ UNCHANGED <<finaliseVars, history, canvas, helper, votes>>

NextTheme ==
    \/ \E f \in FontFamilies : ThemeCall(f)
    \/ ThemeUpdate
    \/ ThemeSetStyle
    \/ ThemeReturn

SpecTheme == InitTheme /\ [][NextTheme]_vars

\* C16: whatever the defaults were before, when bbc_theme(font_family) returns
\* every themed default holds its theme value in mpl.rcParams -- the seaborn
\* style registration does not undo any of them -- and the call returns None
\* without raising.
C16_ThemedDefaultsHold ==
    theme.pc = "returned" =>
        LET v == theme.rcParams
        IN  /\ v["font.family"] = theme.font
            /\ v["axes.titleweight"] = "bold"
            /\ v["axes.titlesize"] = "28"
            /\ v["axes.labelsize"] = "0"
            /\ v["xtick.labelsize"] = "18"
            /\ v["ytick.labelsize"] = "18"
            /\ v["axes.edgecolor"] = "none"
            /\ v["axes.grid"] = "True"
            /\ v["axes.axisbelow"] = "True"
            /\ v["grid.color"] = "#cbcbcb"
            /\ v["grid.linestyle"] = "-"
            /\ v["axes.prop_cycle"] = "cycler(color=[#007f7f])"
            /\ v["xtick.bottom"] = "False"
            /\ v["xtick.top"] = "False"
            /\ v["ytick.left"] = "False"
            /\ v["ytick.right"] = "False"
            /\ v["legend.frameon"] = "False"
            /\ v["legend.loc"] = "upper center"
            /\ v["legend.framealpha"] = "0"
            /\ theme.result = "None"
            /\ ~theme.raised

C16_Witness ==
    /\ theme.pc = "returned"
    /\ theme.font = "Arial"
    /\ theme.before["grid.color"] = "red"
    /\ theme.before["font.family"] = "serif"
    /\ theme.before["legend.frameon"] = "True"
    /\ theme.rcParams["grid.color"] = "#cbcbcb"
    /\ theme.rcParams["axes.labelcolor"] = ".15"

----------------------------------------------------------------------------
(* The gallery scripts' theme-enabling helpers (src/examples/gallery)       *)

Scripts == {"01_bar_chart", "02_line_chart", "04_histograms", "05_bubble_scatter"}

\* the root-level hook names a helper tries, in order
HooksOf(script) ==
    IF script = "04_histograms"
    THEN <<"set_theme", "use", "mpl_style", "apply", "style">>
    ELSE <<"set_theme", "use">>

\* 01 and 02 put the import and the hook loop inside one try block
WholeLoopGuarded(script) == script \in {"01_bar_chart", "02_line_chart"}

\* 01, 02 and 05 fall back to bbcstyle.theme.bbc_theme
HasFallback(script) == script # "04_histograms"

HookStatus == {"missing", "ok", "raises"}

\* what the helper finds installed: whether bbcstyle imports, what each
\* root-level attribute is, and what bbcstyle.theme.bbc_theme does
Environments ==
    {e \in [importable : BOOLEAN,
            hooks : [{"set_theme", "use", "mpl_style", "apply", "style"} -> HookStatus],
            bbc_theme : HookStatus] :
        ~e.importable => /\ \A h \in DOMAIN e.hooks : e.hooks[h] = "missing"
                         /\ e.bbc_theme = "missing"}

InitHelper ==
    /\ FinaliseParked
    /\ history = <<>>
    /\ canvas = Unused
    /\ theme = Unused
    /\ votes = Unused
    /\ \E sc \in Scripts, e \in Environments :
          helper = [script |-> sc, env |-> e, pc |-> "import", i |-> 1,
                    themed |-> FALSE, warned |-> FALSE]

\* import bbcstyle as bbc
HelperImport ==
    /\ helper.pc = "import"
    /\ helper' =
          IF helper.env.importable
          THEN [helper EXCEPT !.pc = "hooks"]
          ELSE IF WholeLoopGuarded(helper.script)
               THEN [helper EXCEPT !.pc = "fallback"]
               ELSE [helper EXCEPT !.pc = "returned", !.warned = TRUE]
    /\ UNCHANGED <<finaliseVars, history, canvas, theme, votes>>

\* one iteration of the hook loop: getattr, callable, fn(), return
HelperHook ==
    /\ helper.pc = "hooks"
    /\ helper.i <= Len(HooksOf(helper.script))
    /\ LET status == helper.env.hooks[HooksOf(helper.script)[helper.i]]
       IN  helper' =
             CASE status = "missing" -> [helper EXCEPT !.i = @ + 1]
               [] status = "ok" -> [helper EXCEPT !.pc = "returned", !.themed = TRUE]
               [] status = "raises" ->
                    IF WholeLoopGuarded(helper.script)
                    THEN [helper EXCEPT !.pc = "fallback"]
                    ELSE IF helper.script = "04_histograms"
                         THEN [helper EXCEPT !.i = @ + 1, !.warned = TRUE]
                         ELSE [helper EXCEPT !.pc = "raised"]
    /\ UNCHANGED <<finaliseVars, history, canvas, theme, votes>>

\* the loop ends without a callable hook having returned
HelperLoopEnd ==
    /\ helper.pc = "hooks"
    /\ helper.i > Len(HooksOf(helper.script))
    /\ helper' =
          IF HasFallback(helper.script)
          THEN [helper EXCEPT !.pc = "fallback"]
          ELSE [helper EXCEPT !.pc = "returned", !.warned = TRUE]
    /\ UNCHANGED <<finaliseVars, history, canvas, theme, votes>>

\* from bbcstyle.theme import bbc_theme; bbc_theme(), inside try/except
HelperFallback ==
    /\ helper.pc = "fallback"
    /\ helper' =
          IF helper.env.bbc_theme = "ok"
          THEN [helper EXCEPT !.pc = "returned", !.themed = TRUE]
          ELSE [helper EXCEPT !.pc = "returned",
                              !.warned = (helper.script = "05_bubble_scatter")]
    /\ UNCHANGED <<finaliseVars, history, canvas, theme, votes>>

\* the caller of the helper: it builds the chart after a normal return and
\* is unwound by an exception the helper let through
ScriptGoesOn ==
    /\ helper.pc \in {"returned", "raised"}
    /\ helper' = [helper EXCEPT !.pc = IF helper.pc = "returned" THEN "charting"
                                        ELSE "aborted"]
    /\ UNCHANGED <<finaliseVars, history, canvas, theme, votes>>

NextHelper ==
    \/ HelperImport
    \/ HelperHook
    \/ HelperLoopEnd
    \/ HelperFallback
    \/ ScriptGoesOn

SpecHelper == InitHelper /\ [][NextHelper]_vars

\* C17: in every gallery script, a theme hook that is missing or that raises
\* never aborts chart generation: the helper never lets an exception through,
\* and a helper that applied no theme leaves the defaults as they were.
C17_HookFailureNeverAborts ==
    /\ helper.pc \notin {"raised", "aborted"}
    /\ (helper.pc = "charting" /\ helper.env.bbc_theme # "ok"
            /\ \A h \in DOMAIN helper.env.hooks : helper.env.hooks[h] # "ok")
         => ~helper.themed

\* Scripts 01, 02 and 04 on their own do keep the promise.
C17_GuardedHelpersNeverAbort ==
    helper.script # "05_bubble_scatter" => helper.pc \notin {"raised", "aborted"}

----------------------------------------------------------------------------
(* The gallery scripts' finalise_plot calls against the signature           *)

\* C18: every keyword option a gallery call passes is a parameter of
\* finalise_plot, so no gallery call ends in TypeError before any decoration
\* or file is produced.
C18_GalleryCallsAccepted ==
    (pc # "idle" /\ args \in GalleryCalls) => err # "TypeError"

----------------------------------------------------------------------------
(* make_synthetic_votes (src/examples/gallery/04_histograms.py)             *)
(*                                                                          *)
(* Vote-share deltas are counted in hundredths (0.22 is 22).  The draws of  *)
(* the random generator are inputs chosen from small sets.                  *)

\* largest n of a call
MaxN == 2

\* values rng.normal(mean, sd) can produce, for the means and sds of the model
NormalDraws == {-30, -23, -22, -10, 0, 10, 22, 23, 25, 30}

ClipLow == -22

ClipHigh == 25

\* np.clip(x, lo, hi) on one element
Clip(x, lo, hi) == IF x < lo THEN lo ELSE IF x > hi THEN hi ELSE x

InitVotes ==
    /\ FinaliseParked
    /\ history = <<>>
    /\ canvas = Unused
    /\ theme = Unused
    /\ helper = Unused
    /\ \E n \in 0..MaxN :
          votes = [pc |-> "normal", n |-> n, delta |-> <<>>, won |-> <<>>]

\* delta = rng.normal(mean, sd, size=n)
VotesNormal ==
    /\ votes.pc = "normal"
    /\ \E d \in [1..votes.n -> NormalDraws] :
          votes' = [votes EXCEPT !.pc = "clip", !.delta = d]
    /\ UNCHANGED <<finaliseVars, history, canvas, theme, helper>>

\* delta = np.clip(delta, -0.22, 0.25)
VotesClip ==
    /\ votes.pc = "clip"
    /\ votes' = [votes EXCEPT !.pc = "won",
                              !.delta = [i \in 1..votes.n |->
                                            Clip(votes.delta[i], ClipLow, ClipHigh)]]
    /\ UNCHANGED <<finaliseVars, history, canvas, theme, helper>>

\* won = rng.random(n) < p; return VoteData(delta=delta, won=won)
VotesWon ==
    /\ votes.pc = "won"
    /\ \E w \in [1..votes.n -> BOOLEAN] :
          votes' = [votes EXCEPT !.pc = "returned", !.won = w]
    /\ UNCHANGED <<finaliseVars, history, canvas, theme, helper>>

NextVotes ==
    \/ VotesNormal
    \/ VotesClip
    \/ VotesWon

SpecVotes == InitVotes /\ [][NextVotes]_vars

\* C19: every delta make_synthetic_votes returns lies in [-0.22, 0.22], and
\* the delta and won arrays it returns both have length n.
C19_DeltasWithin22 ==
    votes.pc = "returned" =>
        /\ \A i \in 1..Len(votes.delta) :
              votes.delta[i] >= -22 /\ votes.delta[i] <= 22
        /\ Len(votes.delta) = votes.n
        /\ Len(votes.won) = votes.n

\* What the code does guarantee: deltas in [-0.22, 0.25], lengths n.
C19_DeltasWithinClip ==
    votes.pc = "returned" =>
        /\ \A i \in 1..Len(votes.delta) :
              votes.delta[i] >= -22 /\ votes.delta[i] <= 25
        /\ Len(votes.delta) = votes.n
        /\ Len(votes.won) = votes.n

----------------------------------------------------------------------------
(* Several finalise_plot calls on the same chart                            *)

\* number of calls made on the one chart
MaxRepeat == 2

RepeatCallSpace ==
    {a \in [output_path : {None, Some(OutPng)}, source : Sources,
            logo_path : {None, Some(GoodLogo)},
            title : {None, Some(<<>>), Some(<<"T">>), Some(<<"U">>)},
            subtitle : {Some(<<>>), Some(<<"S">>)},
            logo_position : {DefaultLogoPosition},
            fig_size : {DefaultFigSize}, dpi : {DefaultDpi}, extra : {{}}] :
        (a.logo_path = None) <=> (a.output_path = None)}

RepeatCall ==
    /\ Len(history) < MaxRepeat
    /\ \E a \in RepeatCallSpace : Call(a)

\* the call is over, by return or by exception; the caller keeps the chart
\* and notes the options of the call and the chart as the call left it
RepeatReturn ==
    /\ pc = "done"
    /\ history' = Append(history, [title |-> args.title, subtitle |-> args.subtitle,
                                   source |-> args.source, fig |-> fig])
    /\ pc' = "idle"
    /\ calls' = 0
    /\ args' = NoArgs
    /\ tmp_path' = None
    /\ background' = None
    /\ logo' = None
    /\ err' = "none"
    /\ events' = <<>>
    /\ pre' = [fig |-> fig, files |-> files]
    /\ UNCHANGED <<fig, files, canvas, theme, helper, votes>>

NextRepeat ==
    \/ RepeatCall
    \/ SetSize
    \/ SubplotsAdjust
    \/ DrawTitle
    \/ DrawSubtitle
    \/ DrawSource
    \/ ChooseTmpPath
    \/ SaveFig
    \/ OpenBackground
    \/ OpenLogo
    \/ Paste
    \/ SaveComposite
    \/ RepeatReturn

SpecRepeat == Init /\ [][NextRepeat]_vars

\* the calls so far that passed a non-empty value for the option
CallsWithTitle == {i \in 1..Len(history) : Present(history[i].title)}

CallsWithSubtitle == {i \in 1..Len(history) : Present(history[i].subtitle)}

CallsWithSource == {i \in 1..Len(history) : Present(history[i].source)}

\* the texts of the chart at the subtitle's and at the source's position
SubtitleTexts == {i \in 1..Len(fig.texts) : fig.texts[i].y = 900}

SourceTexts == {i \in 1..Len(fig.texts) : fig.texts[i].y = 1}

\* C20: after any sequence of calls on the same chart, the chart has one
\* title at most, that of the last call with a non-empty title; there are as
\* many subtitle texts as calls with a non-empty subtitle and as many source
\* texts as calls with a non-empty source; so a call repeated with the same
\* non-empty subtitle or source leaves a chart other than the first one did.
C20_TitleReplacedTextsAccumulate ==
    pc = "idle" =>
        /\ IF CallsWithTitle = {}
           THEN fig.suptitle = None
           ELSE LET last == CHOOSE i \in CallsWithTitle :
                               \A j \in CallsWithTitle : j <= i
                IN  /\ Len(fig.suptitle) = 1
                    /\ fig.suptitle[1].s = history[last].title[1]
        /\ Cardinality(SubtitleTexts) = Cardinality(CallsWithSubtitle)
        /\ Cardinality(SourceTexts) = Cardinality(CallsWithSource)
        /\ \A i \in 1..(Len(history) - 1) :
              (/\ history[i + 1].title = history[i].title
               /\ history[i + 1].subtitle = history[i].subtitle
               /\ history[i + 1].source = history[i].source
               /\ (Present(history[i].subtitle) \/ Present(history[i].source)))
                 => history[i + 1].fig.texts # history[i].fig.texts

C20_Witness ==
    /\ pc = "idle"
    /\ Len(history) = 2
    /\ history[1].title = Some(<<"T">>)
    /\ history[2].title = Some(<<"T">>)
    /\ history[1].subtitle = Some(<<"S">>)
    /\ history[2].subtitle = Some(<<"S">>)
    /\ history[1].source = Some(<<"X">>)
    /\ history[2].source = Some(<<"X">>)
    /\ fig.suptitle = Some(TitleText(<<"T">>))
    /\ Len(history[1].fig.texts) = 2
    /\ Len(fig.texts) = 4

\* a later non-empty title takes the place of an earlier, different one
C20_WitnessTitleReplaced ==
    /\ pc = "idle"
    /\ Len(history) = 2
    /\ history[1].title = Some(<<"T">>)
    /\ history[2].title = Some(<<"U">>)
    /\ history[1].fig.suptitle = Some(TitleText(<<"T">>))
    /\ fig.suptitle = Some(TitleText(<<"U">>))

----------------------------------------------------------------------------
(* The legacy top-level finalise_plot (src/finalise_plot.py), run after the *)
(* package's on the same options, an identical chart and the same files     *)

\* the options both signatures have; neither title nor subtitle is passed
LegacyCallSpace ==
    [output_path : OutputPaths, source : Sources, logo_path : LogoPaths,
     title : {None}, subtitle : {None}, logo_position : {DefaultLogoPosition},
     fig_size : FigSizes, dpi : {DefaultDpi}, extra : {{}}]

\* fig.text(0.01, 0.01, source, fontsize=10, color="#555555", ha="left")
LegacySourceText(s) ==
    [s |-> s, x |-> 10, y |-> 10, ha |-> "left", fontsize |-> 10, color |-> "#555555"]

\* "if logo_path:"
LegacyLogoRequested(a) == Truthy(a.logo_path)

\* output_path.replace(".png", "_tmp.png")
LegacyTmpPathSame(p) == p

LegacyTmpPathOf(p) == Replace(p, DotPng, TmpDotPng)

\* the top margin tight_layout settles on depends on the rendered extents
TightLayoutTops == {950, 970}

\* what bbox_inches="tight" trims off the width and the height, in tenths
TightCrops == {<<0, 0>>, <<2, 1>>}

\* fig.savefig(tmp_path, dpi=dpi, bbox_inches="tight", facecolor="white")
LegacyRaster(f, dpi, crop) ==
    [kind |-> "figure", fig |-> Some(f), dpi |-> dpi,
     px |-> <<Pixels(f.size[1] - crop[1], dpi), Pixels(f.size[2] - crop[2], dpi)>>,
     meta |-> "matplotlib tight", logo |-> None, pos |-> <<0, 0>>]

PackageRun ==
    /\ history = <<>>
    /\ \E a \in LegacyCallSpace : Call(a)

LegacyCall ==
    /\ pc = "idle"
    /\ Len(history) = 1
    /\ calls < MaxCalls
    /\ calls' = calls + 1
    /\ args' = history[1].args
    /\ pre' = [fig |-> fig, files |-> files]
    /\ events' = <<>>
    /\ tmp_path' = None
    /\ background' = None
    /\ logo' = None
    /\ err' = "none"
    /\ pc' = "legacy_size"
    /\ UNCHANGED <<fig, files, aux>>

\* fig.set_size_inches(*fig_size)
LegacySetSize ==
    /\ pc = "legacy_size"
    /\ fig' = [fig EXCEPT !.size = args.fig_size]
    /\ events' = Append(events, Event("set_size_inches", None))
    /\ pc' = "legacy_layout"
    /\ UNCHANGED <<args, files, Locals, err, pre, calls, aux>>

\* fig.tight_layout()
LegacyTightLayout ==
    /\ pc = "legacy_layout"
    /\ \E t \in TightLayoutTops : fig' = [fig EXCEPT !.top = t]
    /\ events' = Append(events, Event("tight_layout", None))
    /\ pc' = "legacy_source"
    /\ UNCHANGED <<args, files, Locals, err, pre, calls, aux>>

\* if source: fig.text(...)
LegacyDrawSource ==
    /\ pc = "legacy_source"
    /\ IF Truthy(args.source)
       THEN /\ fig' = [fig EXCEPT !.texts = AddText(@, LegacySourceText(args.source[1]))]
            /\ events' = Append(events, Event("text_source", None))
       ELSE UNCHANGED <<fig, events>>
    /\ pc' = "legacy_tmp"
    /\ UNCHANGED <<args, files, Locals, err, pre, calls, aux>>

\* tmp_path = output_path; if logo_path: tmp_path = output_path.replace(...)
\* None has no replace method
LegacyChooseTmpPath ==
    /\ pc = "legacy_tmp"
    /\ IF LegacyLogoRequested(args)
       THEN IF args.output_path = None
            THEN err' = "AttributeError" /\ pc' = "legacy_done" /\ UNCHANGED tmp_path
            ELSE /\ tmp_path' = Some(LegacyTmpPathOf(args.output_path[1]))
                 /\ err' = err /\ pc' = "legacy_save"
       ELSE tmp_path' = args.output_path /\ err' = err /\ pc' = "legacy_save"
    /\ UNCHANGED <<args, fig, files, background, logo, events, pre, calls, aux>>

\* fig.savefig(tmp_path, ...), whatever tmp_path is: None is no file name, ""
\* names no file, and a write to a proper path succeeds or raises OSError
LegacySaveFig ==
    /\ pc = "legacy_save"
    /\ LET tried == Append(events, Event("savefig", tmp_path))
       IN  IF tmp_path = None
           THEN err' = "TypeError" /\ pc' = "legacy_done"
                /\ events' = tried /\ UNCHANGED files
           ELSE IF tmp_path[1] = <<>>
           THEN err' = "FileNotFoundError" /\ pc' = "legacy_done"
                /\ events' = tried /\ UNCHANGED files
           ELSE \/ \E crop \in TightCrops :
                      /\ files' = [files EXCEPT ![tmp_path[1]] =
                                      LegacyRaster(fig, args.dpi, crop)]
                      /\ events' = Append(tried, Event("write_figure", tmp_path))
                      /\ err' = err /\ pc' = "legacy_open_bg"
                \/ /\ err' = "OSError" /\ pc' = "legacy_done"
                   /\ events' = tried /\ UNCHANGED files
    /\ UNCHANGED <<args, fig, Locals, pre, calls, aux>>

\* if logo_path: background = Image.open(tmp_path)
LegacyOpenBackground ==
    /\ pc = "legacy_open_bg"
    /\ IF LegacyLogoRequested(args)
       THEN IF IsImage(files[tmp_path[1]])
            THEN /\ background' = Some(files[tmp_path[1]])
                 /\ events' = Append(events, Event("open", tmp_path))
                 /\ err' = err /\ pc' = "legacy_open_logo"
            ELSE /\ err' = "FileNotFoundError" /\ pc' = "legacy_done"
                 /\ UNCHANGED <<background, events>>
       ELSE err' = err /\ pc' = "legacy_done" /\ UNCHANGED <<background, events>>
    /\ UNCHANGED <<args, fig, files, tmp_path, logo, pre, calls, aux>>

\* logo = Image.open(logo_path).convert("RGBA")
LegacyOpenLogo ==
    /\ pc = "legacy_open_logo"
    /\ IF IsImage(files[args.logo_path[1]])
       THEN /\ logo' = args.logo_path
            /\ events' = Append(events, Event("open", args.logo_path))
            /\ err' = err /\ pc' = "legacy_paste"
       ELSE /\ err' = "UnidentifiedImageError" /\ pc' = "legacy_done"
            /\ UNCHANGED <<logo, events>>
    /\ UNCHANGED <<args, fig, files, tmp_path, background, pre, calls, aux>>

\* background.paste(logo, logo_position, logo)
LegacyPaste ==
    /\ pc = "legacy_paste"
    /\ background' = Some(Pasted(background[1], logo[1], args.logo_position))
    /\ events' = Append(events, Event("paste", None))
    /\ pc' = "legacy_save_out"
    /\ UNCHANGED <<args, fig, files, tmp_path, logo, err, pre, calls, aux>>

\* background.save(output_path): succeeds or raises OSError
LegacySaveComposite ==
    /\ pc = "legacy_save_out"
    /\ \/ /\ files' = [files EXCEPT ![args.output_path[1]] = background[1]]
          /\ events' = Append(events, Event("write_composite", args.output_path))
          /\ err' = err /\ pc' = "legacy_done"
       \/ /\ err' = "OSError" /\ pc' = "legacy_done"
          /\ UNCHANGED <<files, events>>
    /\ UNCHANGED <<args, fig, Locals, pre, calls, aux>>

NextLegacy ==
    \/ PackageRun
    \/ SetSize
    \/ SubplotsAdjust
    \/ DrawTitle
    \/ DrawSubtitle
    \/ DrawSource
    \/ ChooseTmpPath
    \/ SaveFig
    \/ OpenBackground
    \/ OpenLogo
    \/ Paste
    \/ SaveComposite
    \/ RebuildChart
    \/ LegacyCall
    \/ LegacySetSize
    \/ LegacyTightLayout
    \/ LegacyDrawSource
    \/ LegacyChooseTmpPath
    \/ LegacySaveFig
    \/ LegacyOpenBackground
    \/ LegacyOpenLogo
    \/ LegacyPaste
    \/ LegacySaveComposite

SpecLegacy == Init /\ [][NextLegacy]_vars

\* both runs are over: the package's is in history[1], the legacy's in the
\* finalise variables
BothRan == pc = "legacy_done" /\ Len(history) = 1

PackageFileEvents == SelectSeq(history[1].events, IsFileEvent)

LegacyTriedToSave == \E i \in 1..Len(events) : events[i].op = "savefig"

\* the file part of the claim, for a non-empty output_path: with no write
\* failure of the environment in either run, the two runs end with the same
\* error or success after the same file operations on the same paths
SameFileOperations ==
    (BothRan /\ Present(args.output_path)
        /\ err # "OSError" /\ history[1].err # "OSError") =>
        /\ FileEvents = PackageFileEvents
        /\ err = history[1].err
        /\ \A q \in AllPaths :
              (files[q] = pre.files[q]) <=> (history[1].files[q] = history[1].pre.files[q])

\* the package version writes nothing and raises nothing when output_path is
\* absent or empty
PackageSkipsWithoutOutputPath ==
    (BothRan /\ ~Present(args.output_path)) =>
        /\ history[1].err = "none"
        /\ history[1].files = history[1].pre.files
        /\ PackageFileEvents = <<>>

C21_WitnessNoOutputPath ==
    /\ BothRan
    /\ args.output_path = None
    /\ args.logo_path = None
    /\ err = "TypeError"
    /\ LegacyTriedToSave
    /\ history[1].err = "none"

----------------------------------------------------------------------------
(* Sequences of bbc_theme calls, compared with the last call made alone     *)
(*                                                                          *)
(* A sequence of calls runs from some prior defaults; its calls are noted   *)
(* in history.  Then the defaults are put back to what they were before the *)
(* first call, and the last call of the sequence is made again, alone.      *)

Restored == \E i \in 1..Len(history) : history[i].restored

\* a call of the sequence
SeqCall ==
    /\ ~Restored
    /\ \E f \in FontFamilies : ThemeCall(f)

\* the call has returned: its font, and the defaults before and after it
SeqNote ==
    /\ theme.pc = "returned"
    /\ history' = Append(history, [font |-> theme.font, before |-> theme.before,
                                   after |-> theme.rcParams, restored |-> FALSE])
    /\ theme' = [theme EXCEPT !.pc = "idle"]
    /\ UNCHANGED <<finaliseVars, canvas, helper, votes>>

\* the sequence is over: the defaults are put back as before its first call
SeqRestore ==
    /\ theme.pc = "idle"
    /\ Len(history) >= 1
    /\ ~Restored
    /\ history' = Append(history, [font |-> history[Len(history)].font,
                                   before |-> theme.rcParams,
                                   after |-> history[1].before, restored |-> TRUE])
    /\ theme' = [theme EXCEPT !.rcParams = history[1].before, !.n = 0]
    /\ UNCHANGED <<finaliseVars, canvas, helper, votes>>

\* the last call of the sequence, made alone
SeqSingle ==
    /\ Len(history) >= 1
    /\ history[Len(history)].restored
    /\ ThemeCall(history[Len(history)].font)

NextThemeSeq ==
    \/ SeqCall
    \/ ThemeUpdate
    \/ ThemeSetStyle
    \/ SeqNote
    \/ SeqRestore
    \/ SeqSingle

SpecThemeSeq == InitTheme /\ [][NextThemeSeq]_vars

\* the sequence and the single call are both over
SeqCompared ==
    /\ theme.pc = "idle"
    /\ Len(history) >= 3
    /\ history[Len(history) - 1].restored

\* C22: after any sequence of bbc_theme calls the global defaults are what the
\* last call of the sequence, made alone from the same prior defaults, leaves:
\* bbc_theme(f) twice is bbc_theme(f) once, and bbc_theme(f1) then
\* bbc_theme(f2) is bbc_theme(f2) alone.  Within a sequence, a call repeated
\* with the same font changes nothing.
C22_LastCallWins ==
    /\ SeqCompared =>
          LET m == Len(history) - 1
          IN  /\ history[m + 1].font = history[m - 1].font
              /\ history[m + 1].before = history[1].before
              /\ history[m + 1].after = history[m - 1].after
              /\ theme.rcParams = history[m - 1].after
    /\ \A i \in 1..(Len(history) - 1) :
          (~history[i].restored /\ ~history[i + 1].restored
              /\ history[i + 1].font = history[i].font)
            => history[i + 1].after = history[i].after

C22_Witness ==
    /\ SeqCompared
    /\ Len(history) = 4
    /\ history[1].font = "Arial"
    /\ history[2].font = "DejaVu Sans"
    /\ history[1].before["font.family"] = "serif"
    /\ history[1].after["font.family"] = "Arial"
    /\ history[2].after["font.family"] = "DejaVu Sans"
    /\ history[4].before["font.family"] = "serif"
    /\ theme.rcParams = history[2].after

\* the same font twice, then once
C22_WitnessTwice ==
    /\ SeqCompared
    /\ Len(history) = 4
    /\ history[1].font = "Arial"
    /\ history[2].font = "Arial"
    /\ history[1].before["grid.color"] = "red"
    /\ theme.rcParams = history[1].after
    /\ theme.rcParams["grid.color"] = "#cbcbcb"

====
